---- MODULE Spec2Model ----
(***************************************************************************)
(* Model of app.py: the Streamlit page that starts an advertools crawl in  *)
(* a separate process, polls the crawl's JSON-lines output file while the  *)
(* process is alive, and reads, classifies and deletes the file once the   *)
(* process has ended.                                                      *)
(*                                                                         *)
(* Strings that the code inspects character by character (the seed URL)    *)
(* are sequences of one-character strings.  The output file is the         *)
(* sequence of its complete lines (one record per line) plus a flag that   *)
(* says whether a truncated line follows them.                             *)
(***************************************************************************)
EXTENDS Integers, Sequences, FiniteSets, TLC

\* ------------------------------------------------------------------ bounds
\* Largest number of complete records the crawl writes in one run.
MaxRecords == 2

\* ------------------------------------------------------- inputs and values
http_prefix  == <<"h","t","t","p",":","/","/">>
https_prefix == <<"h","t","t","p","s",":","/","/">>

\* Seed strings a caller may pass: two accepted ones and near misses.
Seeds ==
  { <<"h","t","t","p",":","/","/","a">>,
    <<"h","t","t","p","s",":","/","/","a">>,
    <<"h","t","t","p",":","/","a">>,
    <<"H","T","T","P",":","/","/","a">>,
    <<"f","t","p",":","/","/","a">>,
    <<"a">>,
    << >> }

URLs == {"/", "/about"}

\* A record the crawl wrote without a 'status' key (advertools writes such
\* records for requests that failed before any response arrived).
NoStatus == -1

StatusValues == {NoStatus, 0, 200, 404}

\* One line of the output file, decoded.
Records == [url : URLs, status : StatusValues]

\* Browser sessions that run the page at the same time, each with its seed.
Sessions == {1, 2}

SeedOf(i) == IF i = 1 THEN "http://one/" ELSE "http://two/"

\* The names tempfile can give to a new file.
Paths == {"tmp_a.jsonl", "tmp_b.jsonl"}

\* ------------------------------------------------------------ return values
\* run_crawler_df returns None or a DataFrame; rows are the records.
None == [present |-> FALSE, rows |-> << >>]

DataFrame(rows) == [present |-> TRUE, rows |-> rows]

\* The live view before the first publication (st.empty()).
EmptyPlaceholder == [shown |-> FALSE, rows |-> << >>]

VARIABLES
  pc,             \* position of the Streamlit script thread
  caller,         \* "main" (the page) or "direct" (run_crawler_df called on its own)
  start_url,      \* the seed string
  fileExists,     \* os.path.exists(temp_filepath)
  fileLines,      \* the complete lines of the file, decoded
  filePartial,    \* a truncated line follows the complete lines
  crawl_process,  \* "none", "alive", "completed", "failed", "killed"
  live_report,    \* what live_report_placeholder shows
  df,             \* the value run_crawler_df returns
  ui,             \* the messages rendered so far
  exc,            \* the exception that left run_crawler_df, or "none"
  report,         \* the final tables and the download the page built
  sessions,       \* concurrent calls of run_crawler_df, one per browser session
  tmpfiles        \* the temporary directory the concurrent calls share

vars == <<pc, caller, start_url, fileExists, fileLines, filePartial,
          crawl_process, live_report, df, ui, exc, report, sessions, tmpfiles>>

\* The state of one call followed step by step.
callVars == <<pc, caller, start_url, fileExists, fileLines, filePartial,
              crawl_process, live_report, df, ui, exc, report>>

\* The state of the concurrent calls.
pairVars == <<sessions, tmpfiles>>

fileVars == <<fileExists, fileLines, filePartial>>

\* ------------------------------------------------------------ pure helpers
\* str.startswith(prefix)
startswith(s, prefix) ==
  /\ Len(s) >= Len(prefix)
  /\ SubSeq(s, 1, Len(prefix)) = prefix

\* Variant: only the letters of the scheme are compared.
HasAcceptedScheme_letters(s) == startswith(s, <<"h","t","t","p">>)

\* start_url.startswith(('http://', 'https://'))
HasAcceptedScheme(s) ==
  startswith(s, http_prefix) \/ startswith(s, https_prefix)

\* os.path.getsize(temp_filepath): every complete line and a truncated one
\* hold at least one byte.
getsize(lines, partial) == Len(lines) + (IF partial THEN 1 ELSE 0)

\* 'for line in f: data.append(json.loads(line))' raises on the first line
\* that is not a JSON document; a truncated line is never one.
json_loads_raises(lines, partial) == partial

\* 'status' in df.columns: some record carries the key.
HasStatusColumn(rows) == \E i \in 1..Len(rows) : rows[i].status # NoStatus

\* (df['status'] == 0).all(); a missing status is NaN and NaN == 0 is False.
AllStatusZero(rows) == \A i \in 1..Len(rows) : rows[i].status = 0

\* current_df[['url', 'status']] renamed to 'URL' and 'HTTP Status Code'.
ProjectRow(r) == [URL |-> r.url, HTTP_Status_Code |-> r.status]

Project(rows) == [i \in 1..Len(rows) |-> ProjectRow(rows[i])]

\* current_df[['url', 'status']] raises KeyError without a status column.
ProjectRaises(rows) == ~HasStatusColumn(rows)

\* Variant: line 110 tests .any() where the code tests .all().
Classify_anyzero(rows) ==
  IF Len(rows) = 0 \/ ~HasStatusColumn(rows)
       \/ \E i \in 1..Len(rows) : rows[i].status = 0
  THEN DataFrame(<< >>)
  ELSE DataFrame(rows)

\* Variant: the all-zero test of line 110 is missing.
Classify_nozero(rows) ==
  IF Len(rows) = 0 \/ ~HasStatusColumn(rows)
  THEN DataFrame(<< >>)
  ELSE DataFrame(rows)

\* Variant: rows of failed fetches are left out of the returned table.
Classify_filtered(rows) ==
  IF Len(rows) = 0 \/ ~HasStatusColumn(rows) \/ AllStatusZero(rows)
  THEN DataFrame(<< >>)
  ELSE DataFrame(SelectSeq(rows, LAMBDA r : r.status # 0))

\* Lines 107-113: the value the final read returns for parsed rows.
Classify(rows) ==
  IF Len(rows) = 0 \/ ~HasStatusColumn(rows) \/ AllStatusZero(rows)
  THEN DataFrame(<< >>)
  ELSE DataFrame(rows)

\* Variant: 'data' is not reset at line 72, every tick adds to the last view.
MonitorTick_accumulates(view, lines, partial) ==
  IF json_loads_raises(lines, partial) THEN view
  ELSE IF Len(lines) = 0 THEN view
  ELSE IF ProjectRaises(lines) THEN view
  ELSE [shown |-> TRUE, rows |-> view.rows \o Project(lines)]

\* Lines 72-89 once the file is open: the view the placeholder shows after
\* the tick.  Every exception leaves the placeholder as it was (lines 91-94);
\* so does an empty 'data' (line 79).
MonitorTick(view, lines, partial) ==
  IF json_loads_raises(lines, partial) THEN view
  ELSE IF Len(lines) = 0 THEN view
  ELSE IF ProjectRaises(lines) THEN view
  ELSE [shown |-> TRUE, rows |-> Project(lines)]

\* The tick raised inside its try block.
TickRaises(lines, partial) ==
  \/ json_loads_raises(lines, partial)
  \/ Len(lines) > 0 /\ ProjectRaises(lines)

\* ------------------------------------------------- report builder, 154-206
\* Nothing built: main only builds the report for a non-empty DataFrame.
NoReport == [built |-> FALSE, detail |-> << >>, summary |-> {}, csv |-> << >>]

\* A column that holds a missing value (NaN) is a float column.
HasNaN(detail) ==
  \E i \in 1..Len(detail) : detail[i].HTTP_Status_Code = NoStatus

\* Series.value_counts(): one row per distinct value with the number of rows
\* that hold it; missing values are not counted (dropna=True).  The order
\* of the rows (by count, descending) is not modelled.
value_counts(detail) ==
  LET codes == {detail[i].HTTP_Status_Code : i \in 1..Len(detail)} \ {NoStatus}
  IN  { [HTTP_Status_Code |-> c,
         Count |-> Cardinality({i \in 1..Len(detail) :
                                  detail[i].HTTP_Status_Code = c})] : c \in codes }

\* Lines 167-175
get_status_description(code) ==
  CASE code = 200 -> "OK (Success)"
    [] code = 301 -> "Moved Permanently (Redirect)"
    [] code = 302 -> "Found (Temporary Redirect)"
    [] code = 404 -> "Not Found"
    [] code = 500 -> "Internal Server Error"
    [] OTHER -> "Other"

\* Lines 163-177: the summary table with its description column.
status_summary(detail) ==
  { [HTTP_Status_Code |-> r.HTTP_Status_Code,
     Count |-> r.Count,
     Description |-> get_status_description(r.HTTP_Status_Code)] :
       r \in value_counts(detail) }

\* How to_csv writes one status: nothing for a missing value, a float when
\* the column holds a missing value, an integer otherwise.
StatusText(status, float) ==
  IF status = NoStatus THEN ""
  ELSE IF float THEN ToString(status) \o ".0"
  ELSE ToString(status)

\* Variant: the header line is not written (header=False).
to_csv_noheader(detail) ==
  [i \in 1..Len(detail) |->
     detail[i].URL \o "," \o StatusText(detail[i].HTTP_Status_Code, HasNaN(detail))]

\* Line 200: report_df.to_csv(index=False), as its lines.
to_csv(detail) ==
  <<"URL,HTTP Status Code">> \o
  [i \in 1..Len(detail) |->
     detail[i].URL \o "," \o StatusText(detail[i].HTTP_Status_Code, HasNaN(detail))]

\* Lines 154-206 for a non-empty DataFrame.
build_report(rows) ==
  LET report_df == Project(rows)
  IN  [built |-> TRUE,
       detail |-> report_df,
       summary |-> status_summary(report_df),
       csv |-> to_csv(report_df)]

\* ---------------------------------------------------- concurrent calls
\* A path of the temporary directory: no file, or the lines of the file.
Absent == [exists |-> FALSE, lines |-> << >>]

FileOf(lines) == [exists |-> TRUE, lines |-> lines]

\* Lines 46-48 of a call that has passed validation: no path, no process.
NewSession ==
  [pc |-> "mktemp", temp_filepath |-> "", crawl_process |-> "none",
   started |-> 0, live_report |-> EmptyPlaceholder, df |-> None]

\* The record the crawl of session i writes for a page of its seed.
PageOf(i) == [url |-> SeedOf(i), status |-> 200]

\* --------------------------------------------------------------------- Init
Init ==
  /\ pc = "idle"
  /\ caller = "none"
  /\ start_url = << >>
  /\ fileExists = FALSE
  /\ fileLines = << >>
  /\ filePartial = FALSE
  /\ crawl_process = "none"
  /\ live_report = EmptyPlaceholder
  /\ df = None
  /\ ui = {}
  /\ exc = "none"
  /\ report = NoReport
  /\ sessions = [i \in Sessions |-> NewSession]
  /\ tmpfiles = [p \in Paths |-> Absent]

\* ------------------------------------------------------------ main, 141-148
\* One run of the page script: the text field holds 'domain', the button was
\* pressed or not.  'if crawl_button and domain' calls run_crawler_df.
main_run(domain, crawl_button) ==
  /\ pc = "idle"
  /\ IF crawl_button /\ Len(domain) > 0
     THEN /\ pc' = "validate"
          /\ start_url' = domain
          /\ caller' = "main"
     ELSE /\ pc' = "skipped"
          /\ caller' = "main"
          /\ UNCHANGED start_url
  /\ UNCHANGED <<fileVars, crawl_process, live_report, df, ui, exc>>
  /\ UNCHANGED report
  /\ UNCHANGED pairVars

\* run_crawler_df called on its own, with any string.
direct_call(url) ==
  /\ pc = "idle"
  /\ pc' = "validate"
  /\ start_url' = url
  /\ caller' = "direct"
  /\ UNCHANGED <<fileVars, crawl_process, live_report, df, ui, exc>>
  /\ UNCHANGED report
  /\ UNCHANGED pairVars

\* ------------------------------------------------- run_crawler_df, 36-44
validate ==
  /\ pc = "validate"
  /\ IF ~HasAcceptedScheme(start_url)
     THEN /\ ui' = ui \cup {"error: invalid url"}
          /\ df' = None
          /\ pc' = "returned"
     ELSE /\ ui' = ui \cup {"warning: starting crawl"}
          /\ df' = None
          /\ pc' = "mktemp"
  /\ UNCHANGED <<caller, start_url, fileVars, crawl_process, live_report, exc>>
  /\ UNCHANGED report
  /\ UNCHANGED pairVars

\* Lines 50-55: NamedTemporaryFile(delete=False) creates the file, empty.
mktemp ==
  /\ pc = "mktemp"
  /\ fileExists' = TRUE
  /\ fileLines' = << >>
  /\ filePartial' = FALSE
  /\ live_report' = EmptyPlaceholder
  /\ pc' = "start"
  /\ UNCHANGED <<caller, start_url, crawl_process, df, ui, exc>>
  /\ UNCHANGED report
  /\ UNCHANGED pairVars

\* Lines 58-64: Process.start() succeeds.
process_start ==
  /\ pc = "start"
  /\ crawl_process' = "alive"
  /\ ui' = ui \cup {"subheader: live status"}
  /\ pc' = "loop"
  /\ UNCHANGED <<caller, start_url, fileVars, live_report, df, exc>>
  /\ UNCHANGED report
  /\ UNCHANGED pairVars

\* Line 62: Process.start() raises (the OS refuses a new process).  No
\* handler encloses the call, so the exception leaves run_crawler_df.
process_start_raises ==
  /\ pc = "start"
  /\ exc' = "OSError"
  /\ pc' = "raised"
  /\ UNCHANGED <<caller, start_url, fileVars, crawl_process, live_report, df, ui>>
  /\ UNCHANGED report
  /\ UNCHANGED pairVars

\* ------------------------------------------------- monitoring loop, 67-94
\* Variant: the loop also ends once a first view has been published.
loop_test_published ==
  /\ pc = "loop"
  /\ pc' = IF crawl_process = "alive" /\ ~live_report.shown THEN "sleep" ELSE "join"
  /\ UNCHANGED <<caller, start_url, fileVars, crawl_process, live_report, df, ui, exc>>
  /\ UNCHANGED report
  /\ UNCHANGED pairVars

\* Line 67: while crawl_process.is_alive()
loop_test ==
  /\ pc = "loop"
  /\ pc' = IF crawl_process = "alive" THEN "sleep" ELSE "join"
  /\ UNCHANGED <<caller, start_url, fileVars, crawl_process, live_report, df, ui, exc>>
  /\ UNCHANGED report
  /\ UNCHANGED pairVars

\* Line 69: time.sleep(3)
sleep ==
  /\ pc = "sleep"
  /\ pc' = "mon_exists"
  /\ UNCHANGED <<caller, start_url, fileVars, crawl_process, live_report, df, ui, exc>>
  /\ UNCHANGED report
  /\ UNCHANGED pairVars

\* Line 73, left operand: os.path.exists(temp_filepath)
mon_exists ==
  /\ pc = "mon_exists"
  /\ pc' = IF fileExists THEN "mon_getsize" ELSE "loop"
  /\ UNCHANGED <<caller, start_url, fileVars, crawl_process, live_report, df, ui, exc>>
  /\ UNCHANGED report
  /\ UNCHANGED pairVars

\* Line 73, right operand: os.path.getsize(temp_filepath) > 0.  A missing
\* file raises OSError, which line 91 swallows.
mon_getsize ==
  /\ pc = "mon_getsize"
  /\ pc' = IF fileExists /\ getsize(fileLines, filePartial) > 0
           THEN "mon_open" ELSE "loop"
  /\ UNCHANGED <<caller, start_url, fileVars, crawl_process, live_report, df, ui, exc>>
  /\ UNCHANGED report
  /\ UNCHANGED pairVars

\* Variant: after a tick the loop sleeps again without testing is_alive().
mon_open_again ==
  /\ pc = "mon_open"
  /\ live_report' = IF fileExists
                    THEN MonitorTick(live_report, fileLines, filePartial)
                    ELSE live_report
  /\ pc' = "sleep"
  /\ UNCHANGED <<caller, start_url, fileVars, crawl_process, df, ui, exc>>
  /\ UNCHANGED report
  /\ UNCHANGED pairVars

\* Variant: the try block catches nothing, a failed tick leaves the function.
mon_open_uncaught ==
  /\ pc = "mon_open"
  /\ IF ~fileExists \/ TickRaises(fileLines, filePartial)
     THEN /\ exc' = "Exception"
          /\ pc' = "raised"
          /\ UNCHANGED live_report
     ELSE /\ live_report' = MonitorTick(live_report, fileLines, filePartial)
          /\ pc' = "loop"
          /\ UNCHANGED exc
  /\ UNCHANGED <<caller, start_url, fileVars, crawl_process, df, ui>>
  /\ UNCHANGED report
  /\ UNCHANGED pairVars

\* Lines 74-94: open, read and parse every line, publish, or swallow.
mon_open ==
  /\ pc = "mon_open"
  /\ live_report' = IF fileExists
                    THEN MonitorTick(live_report, fileLines, filePartial)
                    ELSE live_report
  /\ pc' = "loop"
  /\ UNCHANGED <<caller, start_url, fileVars, crawl_process, df, ui, exc>>
  /\ UNCHANGED report
  /\ UNCHANGED pairVars

\* Line 97: crawl_process.join() returns once the process has ended.
join ==
  /\ pc = "join"
  /\ crawl_process # "alive"
  /\ pc' = "fin_exists"
  /\ UNCHANGED <<caller, start_url, fileVars, crawl_process, live_report, df, ui, exc>>
  /\ UNCHANGED report
  /\ UNCHANGED pairVars

\* ------------------------------------------------------ final read, 99-120
\* Line 115-116: the else branch of line 101.
no_output ==
  /\ ui' = ui \cup {"error: no output"}
  /\ df' = None
  /\ pc' = "cleanup_exists"

\* Variant: the removal sits at the end of the try block, not in finally.
finalize_error_nocleanup ==
  /\ ui' = ui \cup {"error: finalizing"}
  /\ df' = None
  /\ pc' = "returned"

\* Lines 118-120: the except branch.
finalize_error ==
  /\ ui' = ui \cup {"error: finalizing"}
  /\ df' = None
  /\ pc' = "cleanup_exists"

\* Line 101, left operand: os.path.exists(temp_filepath)
fin_exists ==
  /\ pc = "fin_exists"
  /\ IF fileExists
     THEN pc' = "fin_getsize" /\ UNCHANGED <<df, ui>>
     ELSE no_output
  /\ UNCHANGED <<caller, start_url, fileVars, crawl_process, live_report, exc>>
  /\ UNCHANGED report
  /\ UNCHANGED pairVars

\* Variant: the size test is missing, an empty file is opened and parsed.
fin_getsize_nosize ==
  /\ pc = "fin_getsize"
  /\ IF ~fileExists THEN finalize_error
     ELSE pc' = "fin_open" /\ UNCHANGED <<df, ui>>
  /\ UNCHANGED <<caller, start_url, fileVars, crawl_process, live_report, exc>>
  /\ UNCHANGED report
  /\ UNCHANGED pairVars

\* Line 101, right operand: os.path.getsize(temp_filepath) > 0
fin_getsize ==
  /\ pc = "fin_getsize"
  /\ IF ~fileExists THEN finalize_error
     ELSE IF getsize(fileLines, filePartial) > 0
          THEN pc' = "fin_open" /\ UNCHANGED <<df, ui>>
          ELSE no_output
  /\ UNCHANGED <<caller, start_url, fileVars, crawl_process, live_report, exc>>
  /\ UNCHANGED report
  /\ UNCHANGED pairVars

\* Variant: a process that was killed (exit code not 0) counts as no output.
fin_open_exitcode ==
  /\ pc = "fin_open"
  /\ IF crawl_process = "killed" THEN no_output
     ELSE IF ~fileExists \/ json_loads_raises(fileLines, filePartial)
     THEN finalize_error
     ELSE /\ df' = Classify(fileLines)
          /\ pc' = "cleanup_exists"
          /\ UNCHANGED ui
  /\ UNCHANGED <<caller, start_url, fileVars, crawl_process, live_report, exc>>
  /\ UNCHANGED report
  /\ UNCHANGED pairVars

\* Lines 102-113: open, read and parse every line, classify.
fin_open ==
  /\ pc = "fin_open"
  /\ IF ~fileExists \/ json_loads_raises(fileLines, filePartial)
     THEN finalize_error
     ELSE /\ df' = Classify(fileLines)
          /\ pc' = "cleanup_exists"
          /\ UNCHANGED ui
  /\ UNCHANGED <<caller, start_url, fileVars, crawl_process, live_report, exc>>
  /\ UNCHANGED report
  /\ UNCHANGED pairVars

\* ---------------------------------------------------------- finally, 122-125
\* Variant: the file is only removed when a DataFrame is returned.
cleanup_exists_onsuccess ==
  /\ pc = "cleanup_exists"
  /\ pc' = IF fileExists /\ df.present THEN "cleanup_remove" ELSE "returned"
  /\ UNCHANGED <<caller, start_url, fileVars, crawl_process, live_report, df, ui, exc>>
  /\ UNCHANGED report
  /\ UNCHANGED pairVars

\* Line 124: if temp_filepath and os.path.exists(temp_filepath)
cleanup_exists ==
  /\ pc = "cleanup_exists"
  /\ pc' = IF fileExists THEN "cleanup_remove" ELSE "returned"
  /\ UNCHANGED <<caller, start_url, fileVars, crawl_process, live_report, df, ui, exc>>
  /\ UNCHANGED report
  /\ UNCHANGED pairVars

\* Line 125: os.remove(temp_filepath); FileNotFoundError if the path is gone,
\* raised from the finally block and so out of run_crawler_df.
cleanup_remove ==
  /\ pc = "cleanup_remove"
  /\ IF fileExists
     THEN /\ fileExists' = FALSE
          /\ fileLines' = << >>
          /\ filePartial' = FALSE
          /\ pc' = "returned"
          /\ UNCHANGED exc
     ELSE /\ exc' = "FileNotFoundError"
          /\ pc' = "raised"
          /\ UNCHANGED fileVars
  /\ UNCHANGED <<caller, start_url, crawl_process, live_report, df, ui>>
  /\ UNCHANGED report
  /\ UNCHANGED pairVars

\* -------------------------------------------------------- main, 151-210
\* What the page renders for the value run_crawler_df returned.
main_render ==
  /\ pc = "returned"
  /\ caller = "main"
  /\ ui' = IF df.present /\ Len(df.rows) > 0
           THEN ui \cup {"success: crawl completed"}
           ELSE IF df.present /\ Len(df.rows) = 0
                THEN ui \cup {"warning: no internal urls"}
                ELSE ui
  /\ report' = IF df.present /\ Len(df.rows) > 0
               THEN build_report(df.rows)
               ELSE report
  /\ pc' = "done"
  /\ UNCHANGED <<caller, start_url, fileVars, crawl_process, live_report, df, exc>>
  /\ UNCHANGED pairVars

\* ------------------------------------- the crawl process, lines 16-27
\* adv.crawl appends one complete line (or completes the truncated one).
worker_append(r) ==
  /\ crawl_process = "alive"
  /\ fileExists
  /\ Len(fileLines) < MaxRecords
  /\ fileLines' = Append(fileLines, r)
  /\ filePartial' = FALSE
  /\ UNCHANGED <<pc, caller, start_url, fileExists, crawl_process, live_report, df, ui, exc>>
  /\ UNCHANGED report
  /\ UNCHANGED pairVars

\* The first bytes of the next line reach the file before the rest.
worker_partial ==
  /\ crawl_process = "alive"
  /\ fileExists
  /\ ~filePartial
  /\ Len(fileLines) < MaxRecords
  /\ filePartial' = TRUE
  /\ UNCHANGED <<pc, caller, start_url, fileExists, fileLines, crawl_process, live_report, df, ui, exc>>
  /\ UNCHANGED report
  /\ UNCHANGED pairVars

\* adv.crawl returns: every line it wrote is complete.
worker_returns ==
  /\ crawl_process = "alive"
  /\ ~filePartial
  /\ crawl_process' = "completed"
  /\ UNCHANGED <<pc, caller, start_url, fileVars, live_report, df, ui, exc>>
  /\ UNCHANGED report
  /\ UNCHANGED pairVars

\* Lines 24-27: adv.crawl raises; the target prints and the process ends.
worker_fails ==
  /\ crawl_process = "alive"
  /\ crawl_process' = "failed"
  /\ UNCHANGED <<pc, caller, start_url, fileVars, live_report, df, ui, exc>>
  /\ UNCHANGED report
  /\ UNCHANGED pairVars

\* The process is killed from outside.
worker_killed ==
  /\ crawl_process = "alive"
  /\ crawl_process' = "killed"
  /\ UNCHANGED <<pc, caller, start_url, fileVars, live_report, df, ui, exc>>
  /\ UNCHANGED report
  /\ UNCHANGED pairVars

\* --------------------------------------------- the rest of the machine
\* Somebody else removes the temporary file.  The crawl keeps writing to the
\* file it has open, which no path names any more: nothing it writes after
\* the removal is visible at temp_filepath.
external_delete ==
  /\ fileExists
  /\ fileExists' = FALSE
  /\ fileLines' = << >>
  /\ filePartial' = FALSE
  /\ UNCHANGED <<pc, caller, start_url, crawl_process, live_report, df, ui, exc>>
  /\ UNCHANGED report
  /\ UNCHANGED pairVars

\* ------------------------------------------------------------ specifications
Next ==
  \/ \E d \in Seeds, b \in BOOLEAN : main_run(d, b)
  \/ \E u \in Seeds : direct_call(u)
  \/ validate
  \/ mktemp
  \/ process_start
  \/ process_start_raises
  \/ loop_test
  \/ sleep
  \/ mon_exists
  \/ mon_getsize
  \/ mon_open
  \/ join
  \/ fin_exists
  \/ fin_getsize
  \/ fin_open
  \/ cleanup_exists
  \/ cleanup_remove
  \/ main_render
  \/ \E r \in Records : worker_append(r)
  \/ worker_partial
  \/ worker_returns
  \/ worker_fails
  \/ worker_killed

\* The program on a machine where nothing else touches the temporary file.
Spec == Init /\ [][Next]_vars

\* The steps of the script thread.
script ==
  \/ validate
  \/ mktemp
  \/ process_start
  \/ process_start_raises
  \/ loop_test
  \/ sleep
  \/ mon_exists
  \/ mon_getsize
  \/ mon_open
  \/ join
  \/ fin_exists
  \/ fin_getsize
  \/ fin_open
  \/ cleanup_exists
  \/ cleanup_remove
  \/ main_render

\* The script thread is sequential and none of its calls blocks for ever
\* (join waits for a process that has ended): it always takes its next step.
\* Nothing makes the crawl end.
FairSpec == Spec /\ WF_vars(script)

\* ------------------------------------------ concurrent calls, lines 50-125
\* Variant: the output goes to one fixed file name, opened for writing.
s_mktemp_fixedname(i, p) ==
  /\ sessions[i].pc = "mktemp"
  /\ p = "tmp_a.jsonl"
  /\ tmpfiles' = [tmpfiles EXCEPT ![p] = FileOf(<< >>)]
  /\ sessions' = [sessions EXCEPT ![i].pc = "start", ![i].temp_filepath = p]
  /\ UNCHANGED callVars

\* Lines 50-52: NamedTemporaryFile creates a file under a name that no
\* existing file has (tempfile opens it with O_EXCL and draws a new name
\* on collision); the call keeps the name in its local temp_filepath.
s_mktemp(i, p) ==
  /\ sessions[i].pc = "mktemp"
  /\ ~tmpfiles[p].exists
  /\ tmpfiles' = [tmpfiles EXCEPT ![p] = FileOf(<< >>)]
  /\ sessions' = [sessions EXCEPT ![i].pc = "start", ![i].temp_filepath = p]
  /\ UNCHANGED callVars

\* Lines 58-62: one Process per call, bound to (start_url, temp_filepath).
s_start(i) ==
  /\ sessions[i].pc = "start"
  /\ sessions' = [sessions EXCEPT ![i].pc = "loop",
                                  ![i].crawl_process = "alive",
                                  ![i].started = @ + 1]
  /\ UNCHANGED <<tmpfiles, callVars>>

\* Line 62 raises: the call ends, its file stays.
s_start_raises(i) ==
  /\ sessions[i].pc = "start"
  /\ sessions' = [sessions EXCEPT ![i].pc = "raised"]
  /\ UNCHANGED <<tmpfiles, callVars>>

\* Line 67
s_loop_test(i) ==
  /\ sessions[i].pc = "loop"
  /\ sessions' = [sessions EXCEPT ![i].pc =
                     IF sessions[i].crawl_process = "alive" THEN "tick" ELSE "final"]
  /\ UNCHANGED <<tmpfiles, callVars>>

\* Lines 69-94: the tick reads the file named by the call's temp_filepath.
s_tick(i) ==
  /\ sessions[i].pc = "tick"
  /\ LET f == tmpfiles[sessions[i].temp_filepath]
     IN  sessions' = [sessions EXCEPT
           ![i].pc = "loop",
           ![i].live_report =
              IF f.exists THEN MonitorTick(@, f.lines, FALSE) ELSE @]
  /\ UNCHANGED <<tmpfiles, callVars>>

\* Lines 97-120: join, then the final read of the call's temp_filepath.
s_final(i) ==
  /\ sessions[i].pc = "final"
  /\ sessions[i].crawl_process # "alive"
  /\ LET f == tmpfiles[sessions[i].temp_filepath]
     IN  sessions' = [sessions EXCEPT
           ![i].pc = "cleanup",
           ![i].df = IF f.exists /\ Len(f.lines) > 0
                     THEN Classify(f.lines) ELSE None]
  /\ UNCHANGED <<tmpfiles, callVars>>

\* Lines 122-125: the finally block removes the call's temp_filepath.
s_cleanup(i) ==
  /\ sessions[i].pc = "cleanup"
  /\ tmpfiles' = [tmpfiles EXCEPT ![sessions[i].temp_filepath] = Absent]
  /\ sessions' = [sessions EXCEPT ![i].pc = "returned"]
  /\ UNCHANGED callVars

\* Lines 19-23 in the process of call i: adv.crawl appends a record of its
\* seed to the output_file it was given.
w_append(i) ==
  /\ sessions[i].crawl_process = "alive"
  /\ LET p == sessions[i].temp_filepath
     IN  /\ tmpfiles[p].exists
         /\ Len(tmpfiles[p].lines) < MaxRecords
         /\ tmpfiles' = [tmpfiles EXCEPT ![p].lines = Append(@, PageOf(i))]
  /\ UNCHANGED <<sessions, callVars>>

\* The process of call i ends (returns, fails or is killed).
w_ends(i) ==
  /\ sessions[i].crawl_process = "alive"
  /\ sessions' = [sessions EXCEPT ![i].crawl_process = "ended"]
  /\ UNCHANGED <<tmpfiles, callVars>>

NextPair ==
  \/ \E i \in Sessions, p \in Paths : s_mktemp(i, p)
  \/ \E i \in Sessions : s_start(i)
  \/ \E i \in Sessions : s_start_raises(i)
  \/ \E i \in Sessions : s_loop_test(i)
  \/ \E i \in Sessions : s_tick(i)
  \/ \E i \in Sessions : s_final(i)
  \/ \E i \in Sessions : s_cleanup(i)
  \/ \E i \in Sessions : w_append(i)
  \/ \E i \in Sessions : w_ends(i)

\* Two calls of run_crawler_df that run at the same time.
SpecPair == Init /\ [][NextPair]_vars

NextExt ==
  \/ Next
  \/ external_delete

\* The program next to other processes that may remove the temporary file.
SpecExt == Init /\ [][NextExt]_vars

TypeOK ==
  /\ pc \in {"idle", "validate", "mktemp", "start", "loop", "sleep",
             "mon_exists", "mon_getsize", "mon_open", "join", "fin_exists",
             "fin_getsize", "fin_open", "cleanup_exists", "cleanup_remove",
             "returned", "done", "raised", "skipped"}
  /\ caller \in {"none", "main", "direct"}
  /\ start_url \in Seeds
  /\ fileExists \in BOOLEAN
  /\ Len(fileLines) <= MaxRecords
  /\ \A i \in 1..Len(fileLines) : fileLines[i] \in Records
  /\ filePartial \in BOOLEAN
  /\ crawl_process \in {"none", "alive", "completed", "failed", "killed"}
  /\ df.present \in BOOLEAN
  /\ exc \in {"none", "OSError", "FileNotFoundError"}
  /\ ui \subseteq {"error: invalid url", "warning: starting crawl",
                   "subheader: live status", "error: no output",
                   "error: finalizing", "success: crawl completed",
                   "warning: no internal urls"}

\* ================================================================ properties
\* run_crawler_df has handed a value back to its caller.
Returned == pc \in {"returned", "done"}

\* The call of run_crawler_df is over, by return or by exception.
Ended == pc \in {"returned", "done", "raised"}

\* The final read is over and the finally block has not yet removed the file.
InCleanup == pc \in {"cleanup_exists", "cleanup_remove"}

Errors == {"error: invalid url", "error: no output", "error: finalizing"}

EmptySuccess == DataFrame(<< >>)

C1_LacksScheme(s) ==
  /\ ~startswith(s, <<"h","t","t","p",":","/","/">>)
  /\ ~startswith(s, <<"h","t","t","p","s",":","/","/">>)

\* C1: a seed that begins with neither 'http://' nor 'https://' is rejected:
\* the call shows the validation error and returns None, and at no moment of
\* the call has the crawl process been started or the temporary file created.
C1_InvalidSeedRejected ==
  (pc \notin {"idle", "skipped"} /\ C1_LacksScheme(start_url)) =>
     /\ crawl_process = "none"
     /\ ~fileExists
     /\ pc \in {"validate", "returned", "done"}
     /\ Returned => (df = None /\ "error: invalid url" \in ui)

C1_Witness ==
  /\ pc = "returned"
  /\ start_url = <<"h","t","t","p",":","/","a">>
  /\ df = None
  /\ "error: invalid url" \in ui

\* C2: the temporary file never outlives the call that created it: however
\* the call ends (return, or an exception from Process.start(), the loop or
\* the final read), the file does not exist afterwards.
C2_FileNeverOutlivesCall == Ended => ~fileExists

C3_Observed ==
  \/ pc = "fin_exists" /\ ~fileExists
  \/ pc = "fin_getsize" /\ fileExists /\ getsize(fileLines, filePartial) = 0

C3_Step ==
  /\ (C3_Observed /\ pc' # pc) =>
        /\ df' = None
        /\ "error: no output" \in ui'
        /\ pc' = "cleanup_exists"
  /\ df'.present =>
        \/ df' = df
        \/ pc = "fin_open" /\ fileExists /\ getsize(fileLines, filePartial) > 0

C3_Killed ==
  (InCleanup /\ fileExists /\ getsize(fileLines, filePartial) = 0) =>
     (df = None /\ "error: no output" \in ui)

\* C3: when the test of line 101 finds the path missing or the file empty,
\* the final read shows 'no output' and returns None; the returned value only
\* becomes a DataFrame in a read of an existing, non-empty file.  A crawl
\* process killed before it wrote anything ends in this hard failure.
C3_NoOutputIsHardFailure == [][C3_Step]_vars /\ []C3_Killed

C3_Witness ==
  /\ pc = "cleanup_exists"
  /\ crawl_process = "killed"
  /\ fileExists
  /\ getsize(fileLines, filePartial) = 0
  /\ df = None
  /\ "error: no output" \in ui

\* C4: a crawl process that runs to completion and writes no record makes
\* the final read return an empty DataFrame, and the page shows the 'no
\* internal URLs' warning and no error.
C4_ZeroRecordsIsEmptySuccess ==
  (InCleanup /\ crawl_process = "completed" /\ fileExists
     /\ getsize(fileLines, filePartial) = 0) =>
       (df = EmptySuccess /\ ui \cap Errors = {})

\* C5: a non-empty file whose lines all parse and whose records all have
\* status 0 makes the final read return an empty DataFrame, not None, and
\* the page then shows the 'no internal URLs' warning and no error.
C5_AllZeroIsEmptySuccess ==
  /\ (InCleanup /\ fileExists /\ ~filePartial /\ Len(fileLines) > 0
        /\ AllStatusZero(fileLines)) =>
       (df = EmptySuccess /\ ui \cap Errors = {})
  /\ (pc = "done" /\ df = EmptySuccess) =>
       /\ "warning: no internal urls" \in ui
       /\ "success: crawl completed" \notin ui
       /\ ui \cap Errors = {}

C5_Witness ==
  /\ pc = "cleanup_remove"
  /\ fileExists
  /\ Len(fileLines) > 0
  /\ AllStatusZero(fileLines)
  /\ df = EmptySuccess

\* C6: a tick that reads complete lines followed by one truncated line
\* publishes what it would publish had the truncated line not been there.
C6_TruncatedLineIgnored ==
  (pc = "mon_open" /\ fileExists /\ filePartial) =>
     MonitorTick(live_report, fileLines, TRUE)
       = MonitorTick(live_report, fileLines, FALSE)

C7_TickFails ==
  \/ pc = "mon_getsize" /\ ~fileExists
  \/ pc = "mon_open" /\ (~fileExists \/ TickRaises(fileLines, filePartial))

InLoop == pc \in {"loop", "sleep", "mon_exists", "mon_getsize", "mon_open"}

C7_Step ==
  /\ (C7_TickFails /\ pc' # pc) =>
        /\ pc' = "loop"
        /\ UNCHANGED <<ui, exc, df, fileVars, crawl_process, live_report>>
  /\ (InLoop /\ ~InLoop') =>
        (pc = "loop" /\ pc' = "join" /\ crawl_process # "alive")

\* C7: a tick whose read or parse raises shows no error, leaves the file,
\* the process, the returned value and the live view as they were and goes
\* back to the loop test; the loop is left only from the loop test, and only
\* when the crawl process is no longer alive.
C7_TickErrorsSwallowed == [][C7_Step]_vars

C7_Witness ==
  /\ pc = "mon_open"
  /\ fileExists
  /\ TickRaises(fileLines, filePartial)
  /\ live_report.shown
  /\ crawl_process = "alive"

\* C8: when the final parse raises, the error is shown, None is returned and
\* the finally block still removes the file: the call returns, it does not
\* raise, and the file is gone.
C8_FinalizeErrorCleansUp ==
  /\ (InCleanup /\ fileExists /\ json_loads_raises(fileLines, filePartial)) =>
       (df = None /\ "error: finalizing" \in ui)
  /\ "error: finalizing" \in ui =>
       /\ InCleanup \/ Returned
       /\ df = None
       /\ Returned => ~fileExists

C8_Witness ==
  /\ pc = "returned"
  /\ "error: finalizing" \in ui
  /\ crawl_process = "killed"
  /\ df = None
  /\ ~fileExists

\* C9: the final step never raises on a path that is already gone, whenever
\* before or during that step the path was removed.
C9_CleanupNeverRaises == ~(pc = "raised" /\ exc = "FileNotFoundError")

C10_HasNonZero(rows) ==
  \E i \in 1..Len(rows) : rows[i].status \notin {0, NoStatus}

\* C10: a non-empty file whose lines all parse and that holds a record with
\* a non-zero status makes the final read return exactly the records of the
\* file, one row per line, in file order, status-0 records included.
C10_FullResult ==
  (InCleanup /\ fileExists /\ ~filePartial /\ C10_HasNonZero(fileLines)) =>
     /\ df.present
     /\ Len(df.rows) = Len(fileLines)
     /\ \A i \in 1..Len(fileLines) : df.rows[i] = fileLines[i]

C10_Witness ==
  /\ pc = "cleanup_remove"
  /\ fileExists
  /\ Len(fileLines) = 2
  /\ fileLines[1].status = 0
  /\ fileLines[2].status = 200
  /\ df = DataFrame(fileLines)

RECURSIVE C11_SumCounts(_)
C11_SumCounts(summary) ==
  IF summary = {} THEN 0
  ELSE LET r == CHOOSE x \in summary : TRUE
       IN  r.Count + C11_SumCounts(summary \ {r})

C11_RowsWith(detail, code) ==
  {i \in 1..Len(detail) : detail[i].HTTP_Status_Code = code}

\* C11: in every report the page builds, the counts of the summary add up
\* to the number of rows of the detail table, and every status code of the
\* detail table has exactly one summary row, whose count is the number of
\* detail rows with that code.
C11_SummaryMatchesDetail ==
  (pc = "done" /\ report.built) =>
     /\ C11_SumCounts(report.summary) = Len(report.detail)
     /\ \A i \in 1..Len(report.detail) :
          LET code == report.detail[i].HTTP_Status_Code
          IN  code # NoStatus =>
                /\ Cardinality({r \in report.summary : r.HTTP_Status_Code = code}) = 1
                /\ \A r \in report.summary :
                     r.HTTP_Status_Code = code =>
                       r.Count = Cardinality(C11_RowsWith(report.detail, code))

C12_Line(r, float) ==
  r.url \o "," \o
    (IF r.status = NoStatus THEN ""
     ELSE IF float THEN ToString(r.status) \o ".0" ELSE ToString(r.status))

\* C12: for a returned table of n records the detail table has n rows and
\* the download has n + 1 lines: the header 'URL,HTTP Status Code', then one
\* line per record, in the order of the records.
C12_ExportHasHeaderAndRows ==
  (pc = "done" /\ report.built) =>
     LET n == Len(df.rows)
         float == \E i \in 1..n : df.rows[i].status = NoStatus
     IN  /\ n > 0
         /\ Len(report.detail) = n
         /\ \A i \in 1..n :
              /\ report.detail[i].URL = df.rows[i].url
              /\ report.detail[i].HTTP_Status_Code = df.rows[i].status
         /\ Len(report.csv) = n + 1
         /\ report.csv[1] = "URL,HTTP Status Code"
         /\ \A i \in 1..n : report.csv[i + 1] = C12_Line(df.rows[i], float)

C12_Witness ==
  /\ pc = "done"
  /\ report.built
  /\ Len(df.rows) = 2
  /\ report.csv = <<"URL,HTTP Status Code", "/,200", "/about,404">>

\* The three states of the monitor: RUNNING is InLoop.
Draining == pc = "join"

Finalizing == pc \in {"fin_exists", "fin_getsize", "fin_open"}

Done == Finalizing \/ InCleanup \/ Returned

C13_Step ==
  /\ (InLoop /\ ~InLoop') => (Draining' /\ crawl_process # "alive")
  /\ (Draining /\ ~Draining') => pc' = "fin_exists"
  /\ Done => Done'
  /\ (Draining \/ Finalizing) => fileVars' = fileVars
  /\ crawl_process \in {"completed", "failed", "killed"} =>
        crawl_process' = crawl_process

\* C13: the monitor goes RUNNING -> DRAINING -> DONE and never back; the
\* final read only begins once the crawl process has ended, and nothing is
\* written to the file from the moment the loop is left.
C13_MonitorOrder ==
  [][C13_Step]_vars /\ []((Draining \/ Done) => crawl_process # "alive")

C13_Witness ==
  /\ pc = "fin_open"
  /\ crawl_process = "completed"
  /\ live_report.shown
  /\ Len(fileLines) = 2

C14_Step ==
  fileVars' # fileVars =>
     \/ /\ pc = "mktemp"
        /\ ~fileExists /\ fileExists'
        /\ fileLines' = << >> /\ ~filePartial'
     \/ /\ pc' = pc
        /\ crawl_process = "alive"
        /\ fileExists /\ fileExists'
        /\ Len(fileLines') >= Len(fileLines)
        /\ SubSeq(fileLines', 1, Len(fileLines)) = fileLines
     \/ /\ pc = "cleanup_remove"
        /\ crawl_process # "alive"
        /\ fileExists /\ ~fileExists'

C14_DeletedOnce == (Ended /\ HasAcceptedScheme(start_url)) => ~fileExists

\* C14: the file has one writer and one deleter: the launcher creates it
\* empty, only the crawl process appends to it, ticks and the final read
\* leave it as it is, and every validated call deletes it exactly once, in
\* the finally block, after the final read and never while the process is
\* alive.
C14_OneWriterOneDeleter == [][C14_Step]_vars /\ []C14_DeletedOnce

C14_FrameOnly == [][C14_Step]_vars

C15_HardFailure ==
  df = None /\ ui \cap {"error: no output", "error: finalizing"} # {}

C15_EmptySuccess == df = EmptySuccess /\ ui \cap Errors = {}

C15_FullResult == df.present /\ Len(df.rows) > 0 /\ ui \cap Errors = {}

C15_OneOutcome ==
  /\ C15_HardFailure \/ C15_EmptySuccess \/ C15_FullResult
  /\ ~(C15_HardFailure /\ C15_EmptySuccess)
  /\ ~(C15_HardFailure /\ C15_FullResult)
  /\ ~(C15_EmptySuccess /\ C15_FullResult)

\* C15: when the script thread keeps taking steps, a call whose crawl
\* process ends returns with exactly one of the three outcomes and with the
\* file deleted; and while the crawl process is alive the call stays in the
\* monitoring loop, it neither finalizes nor returns.
C15_EndsOnceProcessEnds ==
  /\ (crawl_process \in {"completed", "failed", "killed"})
        ~> (Returned /\ ~fileExists /\ C15_OneOutcome)
  /\ [](crawl_process = "alive" => InLoop)

C15_Witness ==
  /\ pc = "done"
  /\ crawl_process = "failed"
  /\ ~fileExists
  /\ C15_FullResult

\* The outcome as a function of what the file holds, and of nothing else.
C16_Outcome(lines, partial) ==
  IF Len(lines) = 0 /\ ~partial
  THEN [value |-> None, errors |-> {"error: no output"}]
  ELSE IF partial
  THEN [value |-> None, errors |-> {"error: finalizing"}]
  ELSE IF \/ \A i \in 1..Len(lines) : lines[i].status = 0
          \/ \A i \in 1..Len(lines) : lines[i].status = NoStatus
  THEN [value |-> EmptySuccess, errors |-> {}]
  ELSE [value |-> [present |-> TRUE, rows |-> lines], errors |-> {}]

\* C16: a failure inside the crawl process never leaves run_crawler_df as an
\* exception, and the outcome of the final read is a function of the
\* contents of the file alone: it is the same whether the process completed,
\* failed or was killed, and whatever the ticks published.
C16_OutcomeFromFileOnly ==
  /\ crawl_process \in {"failed", "killed"} => (pc # "raised" /\ exc = "none")
  /\ (InCleanup /\ fileExists) =>
       /\ df = C16_Outcome(fileLines, filePartial).value
       /\ ui \cap {"error: no output", "error: finalizing"}
            = C16_Outcome(fileLines, filePartial).errors

C16_Witness ==
  /\ pc = "cleanup_exists"
  /\ crawl_process = "killed"
  /\ ~live_report.shown
  /\ df.present
  /\ Len(df.rows) = 2

\* A tick: the sleep of line 69 and the read of lines 71-94.
InTick == pc \in {"sleep", "mon_exists", "mon_getsize", "mon_open"}

C18_Step ==
  /\ (pc = "loop" /\ crawl_process # "alive" /\ pc' # pc) =>
        (pc' = "join" /\ live_report' = live_report)
  /\ (~InTick /\ InTick') =>
        (pc = "loop" /\ crawl_process = "alive" /\ pc' = "sleep")
  /\ (InTick /\ pc' # pc) => pc' \in {"mon_exists", "mon_getsize", "mon_open", "loop"}
  /\ (pc = "mon_open" /\ pc' # pc) => pc' = "loop"
  /\ live_report' # live_report => pc = "mon_open"
  /\ (pc = "join" /\ pc' # pc) => pc' = "fin_exists"

\* C18: once the crawl process has ended no new tick begins: the tick in
\* progress, if any, ends at the loop test, which hands over to join and the
\* final read.  When the process has ended at the first loop test no tick
\* runs and nothing is published, and the final read still follows.
C18_EndDetectedAtNextTest == [][C18_Step]_vars

C18_Witness ==
  /\ pc = "fin_exists"
  /\ crawl_process = "completed"
  /\ ~live_report.shown
  /\ Len(fileLines) = 1
  /\ fileLines[1].status = 200

C19_Recompute(lines) ==
  [i \in 1..Len(lines) |->
     [URL |-> lines[i].url, HTTP_Status_Code |-> lines[i].status]]

C19_Step ==
  /\ (live_report.shown /\ live_report'.shown) =>
        Len(live_report'.rows) >= Len(live_report.rows)
  /\ live_report' # live_report =>
        /\ live_report'.shown
        /\ live_report'.rows = C19_Recompute(fileLines)

C19_AtMostFinal ==
  (live_report.shown /\ fileExists) =>
     Len(live_report.rows) <= Len(fileLines)

\* C19: the counts that successive ticks publish never decrease, every
\* published view is the full recompute over the complete records in the
\* file at that tick, and no published count exceeds the number of records
\* in the file the final read parses.
C19_ViewsGrowWithFile == [][C19_Step]_vars /\ []C19_AtMostFinal

C19_Witness ==
  /\ pc = "loop"
  /\ live_report.shown
  /\ Len(live_report.rows) = 2
  /\ Len(fileLines) = 2
  /\ live_report.rows[1].HTTP_Status_Code = 404
  /\ live_report.rows[2].HTTP_Status_Code = NoStatus

C20_Fetched(view) ==
  {i \in 1..Len(view.rows) : view.rows[i].HTTP_Status_Code \notin {0, NoStatus}}

\* C20: once a tick has published a view that holds a record with a
\* non-zero status, the call ends neither in an empty DataFrame nor in the
\* 'no output' failure: it returns the full table, which holds that record,
\* or it ends in the error of the final parse.
C20_PublishedFetchIsKept ==
  (live_report.shown /\ C20_Fetched(live_report) # {} /\ (InCleanup \/ Returned)) =>
     /\ "error: no output" \notin ui
     /\ df # EmptySuccess
     /\ \/ df = None /\ "error: finalizing" \in ui
        \/ /\ df.present
           /\ \A i \in C20_Fetched(live_report) :
                /\ i <= Len(df.rows)
                /\ df.rows[i].url = live_report.rows[i].URL
                /\ df.rows[i].status = live_report.rows[i].HTTP_Status_Code

C20_Witness ==
  /\ pc = "done"
  /\ live_report.shown
  /\ Len(live_report.rows) = 1
  /\ live_report.rows[1].HTTP_Status_Code = 200
  /\ Len(df.rows) = 2
  /\ df.rows[2].status = 0

\* Call i has created its file and has not yet passed its finally block.
C17_Owns(i) == sessions[i].pc \in {"start", "loop", "tick", "final", "cleanup"}

C17_AllBy(rows, i) == \A k \in 1..Len(rows) : rows[k].url = SeedOf(i)

C17_Isolated ==
  /\ \A i \in Sessions : sessions[i].started <= 1
  /\ \A i, j \in Sessions :
       (i # j /\ C17_Owns(i) /\ C17_Owns(j)) =>
          sessions[i].temp_filepath # sessions[j].temp_filepath
  /\ \A i \in Sessions :
       /\ C17_Owns(i) =>
            /\ tmpfiles[sessions[i].temp_filepath].exists
            /\ C17_AllBy(tmpfiles[sessions[i].temp_filepath].lines, i)
       /\ \A k \in 1..Len(sessions[i].live_report.rows) :
            sessions[i].live_report.rows[k].URL = SeedOf(i)
       /\ C17_AllBy(sessions[i].df.rows, i)
       /\ sessions[i].pc = "cleanup" =>
            sessions[i].df =
              (IF Len(tmpfiles[sessions[i].temp_filepath].lines) = 0
               THEN None
               ELSE [present |-> TRUE,
                     rows |-> tmpfiles[sessions[i].temp_filepath].lines])

C17_Step ==
  \A p \in Paths :
    /\ (tmpfiles[p].exists /\ ~tmpfiles'[p].exists) =>
          \E i \in Sessions :
            /\ sessions[i].pc = "cleanup"
            /\ sessions[i].temp_filepath = p
            /\ sessions'[i].pc = "returned"
    /\ (tmpfiles[p].exists /\ tmpfiles'[p].exists /\ tmpfiles'[p] # tmpfiles[p]) =>
          \E i \in Sessions :
            /\ sessions[i].crawl_process = "alive"
            /\ sessions[i].temp_filepath = p
            /\ tmpfiles'[p].lines = Append(tmpfiles[p].lines, PageOf(i))

\* C17: calls that run at the same time each start at most one process and
\* each own a freshly named file: no process writes to, no tick or final
\* read reads, and no finally block deletes the file of another call, so
\* what a call shows and returns holds only the records of its own process.
C17_CallsDoNotShareFiles == []C17_Isolated /\ [][C17_Step]_vars

C17_Witness ==
  /\ sessions[1].pc = "cleanup"
  /\ sessions[2].pc = "tick"
  /\ sessions[1].temp_filepath = "tmp_b.jsonl"
  /\ sessions[2].temp_filepath = "tmp_a.jsonl"
  /\ Len(sessions[1].df.rows) = 2
  /\ Len(tmpfiles["tmp_a.jsonl"].lines) = 1
  /\ sessions[2].live_report.shown

====
